---- MODULE Spec2Model ----
(***************************************************************************)
(* Hi-Lo number guessing game (hilo.ino).                                  *)
(*                                                                         *)
(* The state is the sketch's globals.  button_checks() calls press_minus(),*)
(* press_guess() and press_plus() one after the other, each at most once   *)
(* per loop iteration, so every step of the game controller is one call of *)
(* one handler.  Spec is the controller driven by an arbitrary sequence of *)
(* such calls; LoopSpec is the whole sketch: setup(), then loop() with the *)
(* three debounced button checks and the rendering of the screen.          *)
(***************************************************************************)
EXTENDS Integers, Naturals, FiniteSets, Sequences, TLC

\* ---------------------------------------------------------------- bounds
\* guesses is an unsigned short that only grows within a level: wrong
\* guesses are cut off once it has reached MaxGuesses.
MaxGuesses == 2
\* millis() is followed up to MaxTime, far below the 2^32 ms at which the
\* unsigned long wraps, so its sums and differences are the plain ones.
MaxTime == 275
\* The time setup() and one rendering of the screen can take, in ms.
Deltas == {25, 50}

\* ------------------------------------------------------------- constants
GAME_START_NUMBER == 5
GAME_LEVEL_MULTIPLIER == 2
GAME_MAX_NUMBER == 50
\* the literal ceiling of player_guess in press_plus
PLAYER_GUESS_CEILING == 1000
\* unsigned short int is 16 bits wide on the ATmega328
USHORT_BITS == 16
USHORT_MOD == 2 ^ USHORT_BITS
DEBOUNCE_DELAY == 75
\* the buttons: m minus, g guess, p plus
Channels == {"m", "g", "p"}
\* digitalRead on an INPUT_PULLUP pin: LOW while the button is pressed
Levels == {"LOW", "HIGH"}

\* enum game_state
game_state == {"start", "enter_guess", "too_low", "too_high", "correct", "win"}

VARIABLES
    current_state,  \* game_state current_state
    player_guess,   \* unsigned short int player_guess
    number,         \* unsigned short int number (the secret number)
    level,          \* unsigned short int level
    max_number,     \* unsigned short int max_number
    guesses,        \* unsigned short int guesses
    last_press,     \* history: the handler that made the last step
    prev_state,     \* history: current_state before the last step
    solved,         \* history: levels guessed correctly since leaving start
    pc,             \* where the sketch is: setup, halted, minus, guess, plus, render
    now,            \* millis()
    display_ok,     \* display.begin(): "unknown" before setup, then "ok" or "failed"
    displayed,      \* the screen last drawn ("none" before the first one)
    button_current_state,       \* m_/g_/p_current_state
    last_flickerable_state,     \* m_/g_/p_last_flickerable_state
    last_steady_state,          \* m_/g_/p_last_steady_state
    last_debounce_time,         \* m_/g_/p_last_debounce_time
    sampled,        \* history: some digitalRead has happened
    fired,          \* history: handlers called in this loop iteration, in order
    snap,           \* history: the game variables when this iteration began
    hold_presses,   \* history: handler calls since the sample last changed
    hold_steady,    \* history: steady level when the sample last changed
    hold_since,     \* history: millis() when the sample last changed
    hold_span,      \* history: Span of the samples since the last change
    last_hold,      \* history: the run of LOW samples, if it was one, that ended last
    inactive_accepted   \* history: HIGH accepted since the last handler call

game == <<current_state, player_guess, number, level, max_number, guesses>>
press_history == <<last_press, prev_state, solved>>
loop_vars == <<pc, now, display_ok, displayed, button_current_state,
               last_flickerable_state, last_steady_state, last_debounce_time,
               sampled, fired, snap, hold_presses, hold_steady, hold_since,
               hold_span, last_hold, inactive_accepted>>
vars == <<current_state, player_guess, number, level, max_number, guesses,
          last_press, prev_state, solved, pc, now, display_ok, displayed,
          button_current_state, last_flickerable_state, last_steady_state,
          last_debounce_time, sampled, fired, snap, hold_presses, hold_steady,
          hold_since, hold_span, last_hold, inactive_accepted>>

\* The value GAME_START_NUMBER * GAME_LEVEL_MULTIPLIER * level of a level.
LevelMax(l) == GAME_START_NUMBER * GAME_LEVEL_MULTIPLIER * l

\* Arduino random(howbig): 0 when howbig = 0, else some value of 0..howbig-1.
random(howbig) == IF howbig = 0 THEN {0} ELSE 0 .. (howbig - 1)

\* The game variables as one value.
Snapshot == [state |-> current_state, guess |-> player_guess,
             number |-> number, level |-> level, guesses |-> guesses]

\* No run of LOW samples has just ended.
NoHold == [level |-> "none", steady |-> "none", span |-> "none", presses |-> 0]

\* How the time from the first to the last sample of a run compares with
\* the debounce window.
Span(first, last) ==
    IF last - first < DEBOUNCE_DELAY THEN "less"
    ELSE IF last - first = DEBOUNCE_DELAY THEN "equal" ELSE "more"

\* ChannelInit with the steady states begun at HIGH
ChannelInit_SteadyHigh ==
    /\ last_steady_state = [ch \in Channels |-> "HIGH"]
    /\ last_flickerable_state = [ch \in Channels |-> "LOW"]
    /\ button_current_state = [ch \in Channels |-> "LOW"]
    /\ last_debounce_time = [ch \in Channels |-> 0]

\* The debounce variables' initializers; the uninitialized m_/g_/p_current_state
\* are zero, which is LOW.
ChannelInit ==
    /\ last_steady_state = [ch \in Channels |-> "LOW"]
    /\ last_flickerable_state = [ch \in Channels |-> "LOW"]
    /\ button_current_state = [ch \in Channels |-> "LOW"]
    /\ last_debounce_time = [ch \in Channels |-> 0]

\* The globals' initializers.
Init ==
    /\ ChannelInit
    /\ pc = "setup"
    /\ now = 0
    /\ display_ok = "unknown"
    /\ displayed = "none"
    /\ sampled = FALSE
    /\ fired = <<>>
    /\ snap = [state |-> "start", guess |-> 0, number |-> 5, level |-> 1,
               guesses |-> 0]
    /\ hold_presses = [ch \in Channels |-> 0]
    /\ hold_steady = [ch \in Channels |-> "none"]
    /\ hold_since = [ch \in Channels |-> 0]
    /\ last_hold = [ch \in Channels |-> NoHold]
    /\ hold_span = [ch \in Channels |-> "less"]
    /\ inactive_accepted = [ch \in Channels |-> FALSE]
    /\ current_state = "start"
    /\ player_guess = 0
    /\ number = 5
    /\ level = 1
    /\ max_number = LevelMax(1)
    /\ guesses = 0
    /\ last_press = "none"
    /\ prev_state = "start"
    /\ solved = {}

\* void setup_game(): reads level as it is when called.
setup_game ==
    /\ max_number' = LevelMax(level) % USHORT_MOD
    /\ guesses' = 0
    /\ number' \in random(max_number')

\* ------------------------------------------------------------ press_minus
minus_start ==
    /\ current_state' = "enter_guess"
    /\ setup_game
    /\ UNCHANGED <<player_guess, level>>

minus_enter_guess ==
    /\ player_guess' = IF player_guess > 0 THEN player_guess - 1 ELSE player_guess
    /\ UNCHANGED <<current_state, number, level, max_number, guesses>>

minus_bad_guess ==
    /\ current_state' = "enter_guess"
    /\ UNCHANGED <<player_guess, number, level, max_number, guesses>>

minus_correct == UNCHANGED game

minus_win == UNCHANGED game

\* ------------------------------------------------------------ press_guess
\* guess_start without the call of setup_game()
guess_start_NoSetup ==
    /\ current_state' = "enter_guess"
    /\ UNCHANGED <<player_guess, number, level, max_number, guesses>>

guess_start ==
    /\ current_state' = "enter_guess"
    /\ setup_game
    /\ UNCHANGED <<player_guess, level>>

\* guess_enter_guess with guesses++ missing in the too-high branch
guess_enter_guess_HighNotCounted ==
    IF player_guess < number
    THEN /\ guesses < MaxGuesses
         /\ current_state' = "too_low"
         /\ guesses' = (guesses + 1) % USHORT_MOD
         /\ UNCHANGED <<player_guess, number, level, max_number>>
    ELSE IF player_guess > number
    THEN /\ guesses < MaxGuesses
         /\ current_state' = "too_high"
         /\ UNCHANGED <<player_guess, number, level, max_number, guesses>>
    ELSE /\ player_guess' = 0
         /\ current_state' = "correct"
         /\ UNCHANGED <<number, level, max_number, guesses>>

\* guess_enter_guess with player_guess = 0 missing in the correct branch
guess_enter_guess_KeepGuess ==
    IF player_guess < number
    THEN /\ guesses < MaxGuesses
         /\ current_state' = "too_low"
         /\ guesses' = (guesses + 1) % USHORT_MOD
         /\ UNCHANGED <<player_guess, number, level, max_number>>
    ELSE IF player_guess > number
    THEN /\ guesses < MaxGuesses
         /\ current_state' = "too_high"
         /\ guesses' = (guesses + 1) % USHORT_MOD
         /\ UNCHANGED <<player_guess, number, level, max_number>>
    ELSE /\ current_state' = "correct"
         /\ UNCHANGED <<player_guess, number, level, max_number, guesses>>

guess_enter_guess ==
    IF player_guess < number
    THEN /\ guesses < MaxGuesses
         /\ current_state' = "too_low"
         /\ guesses' = (guesses + 1) % USHORT_MOD
         /\ UNCHANGED <<player_guess, number, level, max_number>>
    ELSE IF player_guess > number
    THEN /\ guesses < MaxGuesses
         /\ current_state' = "too_high"
         /\ guesses' = (guesses + 1) % USHORT_MOD
         /\ UNCHANGED <<player_guess, number, level, max_number>>
    ELSE /\ player_guess' = 0
         /\ current_state' = "correct"
         /\ UNCHANGED <<number, level, max_number, guesses>>

guess_bad_guess ==
    /\ current_state' = "enter_guess"
    /\ UNCHANGED <<player_guess, number, level, max_number, guesses>>

\* guess_correct with level++ missing
guess_correct_NoLevelUp ==
    IF LevelMax(level) >= GAME_MAX_NUMBER
    THEN /\ current_state' = "win"
         /\ player_guess' = 0
         /\ UNCHANGED <<number, level, max_number, guesses>>
    ELSE /\ setup_game
         /\ current_state' = "enter_guess"
         /\ player_guess' = 0
         /\ UNCHANGED level

\* guess_correct with > in place of >= in the last-level test
guess_correct_Greater ==
    IF LevelMax(level) > GAME_MAX_NUMBER
    THEN /\ current_state' = "win"
         /\ player_guess' = 0
         /\ UNCHANGED <<number, level, max_number, guesses>>
    ELSE /\ setup_game
         /\ current_state' = "enter_guess"
         /\ level' = (level + 1) % USHORT_MOD
         /\ player_guess' = 0

\* guess_correct with the level raised by 2 instead of 1
guess_correct_DoubleStep ==
    IF LevelMax(level) >= GAME_MAX_NUMBER
    THEN /\ current_state' = "win"
         /\ player_guess' = 0
         /\ UNCHANGED <<number, level, max_number, guesses>>
    ELSE /\ setup_game
         /\ current_state' = "enter_guess"
         /\ level' = (level + 2) % USHORT_MOD
         /\ player_guess' = 0

guess_correct ==
    IF LevelMax(level) >= GAME_MAX_NUMBER
    THEN /\ current_state' = "win"
         /\ player_guess' = 0
         /\ UNCHANGED <<number, level, max_number, guesses>>
    ELSE /\ setup_game
         /\ current_state' = "enter_guess"
         /\ level' = (level + 1) % USHORT_MOD
         /\ player_guess' = 0

\* guess_win with level = 1 missing
guess_win_KeepLevel ==
    /\ current_state' = "start"
    /\ player_guess' = 0
    /\ UNCHANGED <<number, level, max_number, guesses>>

guess_win ==
    /\ current_state' = "start"
    /\ level' = 1
    /\ player_guess' = 0
    /\ UNCHANGED <<number, max_number, guesses>>

\* ------------------------------------------------------------- press_plus
plus_start ==
    /\ current_state' = "enter_guess"
    /\ setup_game
    /\ UNCHANGED <<player_guess, level>>

\* plus_enter_guess with <= in place of < in the ceiling test
plus_enter_guess_OffByOne ==
    /\ player_guess' = IF player_guess <= PLAYER_GUESS_CEILING
                       THEN player_guess + 1 ELSE player_guess
    /\ UNCHANGED <<current_state, number, level, max_number, guesses>>

plus_enter_guess ==
    /\ player_guess' = IF player_guess < PLAYER_GUESS_CEILING
                       THEN player_guess + 1 ELSE player_guess
    /\ UNCHANGED <<current_state, number, level, max_number, guesses>>

\* plus_bad_guess falling through into the increment of player_guess
plus_bad_guess_Increments ==
    /\ current_state' = "enter_guess"
    /\ player_guess' = IF player_guess < PLAYER_GUESS_CEILING
                       THEN player_guess + 1 ELSE player_guess
    /\ UNCHANGED <<number, level, max_number, guesses>>

plus_bad_guess ==
    /\ current_state' = "enter_guess"
    /\ UNCHANGED <<player_guess, number, level, max_number, guesses>>

\* plus_other with Plus in correct going on like Guess does
plus_other_Advances ==
    IF current_state = "correct" THEN guess_correct ELSE UNCHANGED game

\* correct and win have no case in press_plus's switch
plus_other == UNCHANGED game

\* ---------------------------------------------------------------- history
History(op) ==
    /\ last_press' = op
    /\ prev_state' = current_state
    /\ solved' = IF current_state = "start" THEN {}
                 ELSE IF current_state = "enter_guess" /\ current_state' = "correct"
                 THEN solved \cup {level}
                 ELSE solved

\* --------------------------------------------------------------- handlers
press_minus ==
    /\ CASE current_state = "start" -> minus_start
         [] current_state = "enter_guess" -> minus_enter_guess
         [] current_state \in {"too_low", "too_high"} -> minus_bad_guess
         [] current_state = "correct" -> minus_correct
         [] current_state = "win" -> minus_win
    /\ History("minus")

press_guess ==
    /\ CASE current_state = "start" -> guess_start
         [] current_state = "enter_guess" -> guess_enter_guess
         [] current_state \in {"too_low", "too_high"} -> guess_bad_guess
         [] current_state = "correct" -> guess_correct
         [] current_state = "win" -> guess_win
    /\ History("guess")

press_plus ==
    /\ CASE current_state = "start" -> plus_start
         [] current_state = "enter_guess" -> plus_enter_guess
         [] current_state \in {"too_low", "too_high"} -> plus_bad_guess
         [] OTHER -> plus_other
    /\ History("plus")

\* One handler call, whatever the debouncer did to cause it.
minus_pressed == press_minus /\ UNCHANGED loop_vars
guess_pressed == press_guess /\ UNCHANGED loop_vars
plus_pressed == press_plus /\ UNCHANGED loop_vars

Next == minus_pressed \/ guess_pressed \/ plus_pressed

Spec == Init /\ [][Next]_vars

\* ------------------------------------------------------------------ setup
\* setup(): a failed display.begin() ends in for(;;).
\* AfterSetup without the for(;;) of the failure branch
AfterSetup_FallsThrough(ok) == "minus"

AfterSetup(ok) == IF ok THEN "minus" ELSE "halted"

setup ==
    /\ pc = "setup"
    /\ \E ok \in BOOLEAN, d \in Deltas :
          /\ display_ok' = IF ok THEN "ok" ELSE "failed"
          /\ now' = now + d
          /\ pc' = AfterSetup(ok)
    /\ UNCHANGED <<game, press_history, displayed, button_current_state,
                   last_flickerable_state, last_steady_state,
                   last_debounce_time, sampled, fired, snap, hold_presses,
                   hold_steady, hold_since, hold_span, last_hold,
                   inactive_accepted>>

\* ---------------------------------------------------------- button_checks
\* The sample lvl differs from the last flickerable state.
Changed(ch, lvl) == lvl # last_flickerable_state[ch]

\* NewDebounceTime without the reset on a changed sample
NewDebounceTime_NoReset(ch, lvl) == last_debounce_time[ch]

\* last_debounce_time after the first if of a check.
NewDebounceTime(ch, lvl) ==
    IF Changed(ch, lvl) THEN now ELSE last_debounce_time[ch]

\* Accepts with >= in place of >
Accepts_AtLeast(ch, lvl) ==
    (now - NewDebounceTime(ch, lvl)) >= DEBOUNCE_DELAY

\* (millis() - last_debounce_time) > DEBOUNCE_DELAY
Accepts(ch, lvl) ==
    (now - NewDebounceTime(ch, lvl)) > DEBOUNCE_DELAY

\* Fires without the test of last_steady_state
Fires_EveryPoll(ch, lvl) ==
    Accepts(ch, lvl) /\ lvl = "LOW"

\* (last_steady_state == HIGH) && (current_state == LOW) inside the second if.
Fires(ch, lvl) ==
    Accepts(ch, lvl) /\ last_steady_state[ch] = "HIGH" /\ lvl = "LOW"

\* The handler of a button and the part of button_checks that follows it.
HandlerOf(ch) == CASE ch = "m" -> "minus" [] ch = "g" -> "guess" [] ch = "p" -> "plus"
\* AfterCheck with the guess and plus blocks swapped
AfterCheck_Swapped(ch) ==
    CASE ch = "m" -> "plus" [] ch = "p" -> "guess" [] ch = "g" -> "render"

AfterCheck(ch) == CASE ch = "m" -> "guess" [] ch = "g" -> "plus" [] ch = "p" -> "render"

\* One button's block of button_checks(); handler is its press_ function.
button_check(ch, handler) ==
    /\ pc = HandlerOf(ch)
    /\ \E lvl \in Levels :
          /\ button_current_state' = [button_current_state EXCEPT ![ch] = lvl]
          /\ last_debounce_time' =
                [last_debounce_time EXCEPT ![ch] = NewDebounceTime(ch, lvl)]
          /\ last_flickerable_state' = [last_flickerable_state EXCEPT ![ch] = lvl]
          /\ IF Fires(ch, lvl)
             THEN handler
             ELSE UNCHANGED <<game, press_history>>
          /\ last_steady_state' =
                IF Accepts(ch, lvl)
                THEN [last_steady_state EXCEPT ![ch] = lvl]
                ELSE last_steady_state
          /\ fired' = IF Fires(ch, lvl) THEN Append(fired, HandlerOf(ch)) ELSE fired
          /\ hold_presses' =
                [hold_presses EXCEPT ![ch] =
                    (IF Changed(ch, lvl) THEN 0 ELSE @)
                    + (IF Fires(ch, lvl) THEN 1 ELSE 0)]
          /\ hold_steady' =
                [hold_steady EXCEPT ![ch] =
                    IF Changed(ch, lvl) THEN last_steady_state[ch] ELSE @]
          /\ hold_since' =
                [hold_since EXCEPT ![ch] = IF Changed(ch, lvl) THEN now ELSE @]
          /\ last_hold' =
                [last_hold EXCEPT ![ch] =
                    IF ~Changed(ch, lvl) THEN @
                    ELSE IF last_flickerable_state[ch] = "LOW"
                    THEN [level |-> "LOW",
                          steady |-> hold_steady[ch],
                          span |-> hold_span[ch],
                          presses |-> hold_presses[ch]]
                    ELSE NoHold]
          /\ hold_span' =
                [hold_span EXCEPT ![ch] =
                    IF Changed(ch, lvl) THEN "less" ELSE Span(hold_since[ch], now)]
          /\ inactive_accepted' =
                [inactive_accepted EXCEPT ![ch] =
                    IF Fires(ch, lvl) THEN FALSE
                    ELSE IF Accepts(ch, lvl) /\ lvl = "HIGH" THEN TRUE ELSE @]
    /\ sampled' = TRUE
    /\ pc' = AfterCheck(ch)
    /\ UNCHANGED <<now, display_ok, displayed, snap>>

check_minus == button_check("m", press_minus)
check_guess == button_check("g", press_guess)
check_plus == button_check("p", press_plus)

\* ------------------------------------------------------------------- loop
\* The switch of loop(): draw the screen of current_state; drawing takes
\* time, and the next iteration begins.
render ==
    /\ pc = "render"
    /\ displayed' = current_state
    /\ \E d \in Deltas :
          /\ now + d <= MaxTime
          /\ now' = now + d
    /\ pc' = "minus"
    /\ fired' = <<>>
    /\ snap' = Snapshot
    /\ UNCHANGED <<game, press_history, display_ok, button_current_state,
                   last_flickerable_state, last_steady_state,
                   last_debounce_time, sampled, hold_presses, hold_steady,
                   hold_since, hold_span, last_hold, inactive_accepted>>

LoopNext == setup \/ check_minus \/ check_guess \/ check_plus \/ render

LoopSpec == Init /\ [][LoopNext]_vars

TypeOK ==
    /\ current_state \in game_state
    /\ player_guess \in 0 .. (USHORT_MOD - 1)
    /\ number \in 0 .. (USHORT_MOD - 1)
    /\ level \in 0 .. (USHORT_MOD - 1)
    /\ max_number \in 0 .. (USHORT_MOD - 1)
    /\ guesses \in 0 .. (USHORT_MOD - 1)

\* ================================================================ claims
Presses == {"minus", "guess", "plus"}

\* C1: a Guess, Minus or Plus press in Start (at power-up or after a Won
\* restart) ends in EnteringGuess with level = 1, guessCount = 0,
\* currentGuess = 0 and secretNumber in [0,10).
C1_StartPress ==
    (last_press \in Presses /\ prev_state = "start") =>
        /\ current_state = "enter_guess"
        /\ level = 1
        /\ guesses = 0
        /\ player_guess = 0
        /\ number \in 0 .. 9

C1_Witness ==
    /\ last_press = "guess"
    /\ prev_state = "start"
    /\ current_state = "enter_guess"
    /\ number = 9

\* C2: currentGuess is always in [0, 1000]; Minus in EnteringGuess at 0 and
\* Plus in EnteringGuess at 1000 leave it alone, otherwise they change it by
\* exactly 1.
C2_GuessClamped ==
    /\ [](player_guess \in 0 .. 1000)
    /\ [][(last_press' = "minus" /\ current_state = "enter_guess") =>
            player_guess' = IF player_guess = 0 THEN 0 ELSE player_guess - 1]_vars
    /\ [][(last_press' = "plus" /\ current_state = "enter_guess") =>
            player_guess' = IF player_guess = 1000 THEN 1000 ELSE player_guess + 1]_vars

C2_Witness ==
    /\ last_press = "plus"
    /\ prev_state = "enter_guess"
    /\ current_state = "enter_guess"
    /\ player_guess = 1000

\* C3: a Guess press in EnteringGuess with currentGuess # secretNumber goes
\* to TooLow when the guess is below and to TooHigh when it is above the
\* secret number, adds exactly 1 to guessCount, and leaves currentGuess,
\* secretNumber and level unchanged.
C3_WrongGuess ==
    [][(last_press' = "guess" /\ current_state = "enter_guess"
            /\ player_guess # number) =>
        /\ player_guess < number => current_state' = "too_low"
        /\ player_guess > number => current_state' = "too_high"
        /\ guesses' = guesses + 1
        /\ UNCHANGED <<player_guess, number, level>>]_vars

C3_Witness ==
    /\ last_press = "guess"
    /\ prev_state = "enter_guess"
    /\ current_state = "too_low"
    /\ number = 7
    /\ player_guess = 3
    /\ guesses = 1

\* C4: a Guess press in EnteringGuess with currentGuess = secretNumber goes
\* to Correct and resets currentGuess to 0; guessCount, level and
\* secretNumber are unchanged.
C4_RightGuess ==
    [][(last_press' = "guess" /\ current_state = "enter_guess"
            /\ player_guess = number) =>
        /\ current_state' = "correct"
        /\ player_guess' = 0
        /\ UNCHANGED <<guesses, level, number>>]_vars

C4_Witness ==
    /\ last_press = "guess"
    /\ prev_state = "enter_guess"
    /\ current_state = "correct"
    /\ number = 7
    /\ player_guess = 0
    /\ guesses = 1

\* C5: a Guess press in Correct at a level L below the last one (L in 1..4)
\* ends in EnteringGuess with level = L+1, guessCount = 0, currentGuess = 0
\* and secretNumber in [0, BASE*MULTIPLIER*(L+1)).
C5_Advance ==
    [][(last_press' = "guess" /\ current_state = "correct"
            /\ LevelMax(level) < GAME_MAX_NUMBER) =>
        /\ level \in 1 .. 4
        /\ current_state' = "enter_guess"
        /\ level' = level + 1
        /\ guesses' = 0
        /\ player_guess' = 0
        /\ number' \in 0 .. (LevelMax(level + 1) - 1)]_vars

C5_Witness ==
    /\ last_press = "guess"
    /\ prev_state = "correct"
    /\ current_state = "enter_guess"
    /\ level = 2
    /\ guesses = 0

\* C6: on an advance from level L to L+1 the secret number is drawn from the
\* whole range of the new level: every value of [0, BASE*MULTIPLIER*(L+1))
\* is a possible secretNumber of the Guess press in Correct.
C6_ReseedNewLevel ==
    (current_state = "correct" /\ LevelMax(level) < GAME_MAX_NUMBER) =>
        \A n \in 0 .. (LevelMax(level + 1) - 1) :
            ENABLED (press_guess /\ number' = n)

\* C7: in every reachable state secretNumber is in
\* [0, BASE*MULTIPLIER*level) for the current level.
C7_SecretInLevelRange ==
    number \in 0 .. (LevelMax(level) - 1)

\* C8: a Guess press in Correct goes to Won exactly when
\* BASE*MULTIPLIER*level >= GAME_MAX_NUMBER, which is level 5, and then sets
\* currentGuess = 0 and keeps level; Won is entered only from Correct at
\* level 5, after all five levels were guessed correctly.
C8_WonOnlyAtLastLevel ==
    /\ [][(last_press' = "guess" /\ current_state = "correct") =>
            /\ (current_state' = "win") <=> (LevelMax(level) >= GAME_MAX_NUMBER)
            /\ (LevelMax(level) >= GAME_MAX_NUMBER) <=> (level = 5)
            /\ current_state' = "win" => (player_guess' = 0 /\ level' = level)]_vars
    /\ [][(current_state' = "win" /\ current_state # "win") =>
            /\ last_press' = "guess"
            /\ current_state = "correct"
            /\ level = 5]_vars
    /\ [](current_state = "win" => (level = 5 /\ solved = 1 .. 5))

C8_Witness ==
    /\ last_press = "guess"
    /\ prev_state = "correct"
    /\ current_state = "win"
    /\ level = 5
    /\ player_guess = 0

\* C9: a Guess press in Won ends in Start with level = 1 and
\* currentGuess = 0.
C9_Restart ==
    [][(last_press' = "guess" /\ current_state = "win") =>
        /\ current_state' = "start"
        /\ level' = 1
        /\ player_guess' = 0]_vars

C9_Witness ==
    /\ last_press = "guess"
    /\ prev_state = "win"
    /\ current_state = "start"
    /\ level = 1
    /\ player_guess = 0

\* C10: any press (Minus, Guess or Plus) in TooLow or TooHigh goes back to
\* EnteringGuess and changes nothing else: currentGuess, secretNumber,
\* level and guessCount keep their values.
C10_BadGuessDismissed ==
    [][(last_press' \in Presses /\ current_state \in {"too_low", "too_high"}) =>
        /\ current_state' = "enter_guess"
        /\ UNCHANGED <<player_guess, number, level, guesses>>]_vars

C10_Witness ==
    /\ last_press = "plus"
    /\ prev_state = "too_high"
    /\ current_state = "enter_guess"
    /\ player_guess > number
    /\ guesses = 1


C16_MaxNumberOfLevel ==
    max_number = GAME_START_NUMBER * GAME_LEVEL_MULTIPLIER * level

InCallOrder ==
    {<<>>, <<"minus">>, <<"guess">>, <<"plus">>, <<"minus", "guess">>,
     <<"minus", "plus">>, <<"guess", "plus">>, <<"minus", "guess", "plus">>}
\* The channel's block of button_checks() has just run in this step.
Polled(ch) == pc = HandlerOf(ch) /\ pc' # pc

\* C12: a single transient glitch (the sample goes active while the stable
\* level is inactive and is back at inactive with less than 75 ms between
\* its first and its last active sample) produces no PressEvent and leaves
\* the stable level alone.
C12_GlitchIgnored ==
    \A ch \in Channels :
        (last_hold[ch].level = "LOW" /\ last_hold[ch].steady = "HIGH"
            /\ last_hold[ch].span = "less") =>
            /\ last_hold[ch].presses = 0
            /\ last_steady_state[ch] = "HIGH"

C12_Witness ==
    /\ last_hold["m"].level = "LOW"
    /\ last_hold["m"].steady = "HIGH"
    /\ last_hold["m"].span = "less"
    /\ last_flickerable_state["m"] = "HIGH"
    /\ last_steady_state["m"] = "HIGH"

\* C13 as stated, for a hold that begins while the accepted stable level
\* is inactive: whenever the sample makes an inactive-to-active transition
\* and is then held active for at least the debounce window, polled
\* throughout, exactly one PressEvent is produced for that hold.
C13_OnePressPerHold ==
    \A ch \in Channels :
        (last_hold[ch].level = "LOW" /\ last_hold[ch].steady = "HIGH"
            /\ last_hold[ch].span \in {"equal", "more"}) =>
            last_hold[ch].presses = 1

\* C13 as amended: whenever the sample goes from inactive to active while the
\* accepted stable level is inactive and is then polled active until more
\* than the debounce window after the transition was sampled, exactly one
\* PressEvent is produced for that hold, at the first such poll; no hold
\* produces more than one, and a hold that begins while the stable level is
\* still active produces none.
C13_OnePressPerAcceptedHold ==
    /\ [][\A ch \in Channels :
            (Polled(ch) /\ last_flickerable_state'[ch] = "LOW"
                /\ hold_steady'[ch] = "HIGH"
                /\ now - hold_since'[ch] > DEBOUNCE_DELAY) =>
                hold_presses'[ch] = 1]_vars
    /\ [](\A ch \in Channels :
            /\ hold_presses[ch] <= 1
            /\ (last_flickerable_state[ch] = "LOW" /\ hold_steady[ch] # "HIGH") =>
                    hold_presses[ch] = 0
            /\ (last_hold[ch].level = "LOW" /\ last_hold[ch].steady = "HIGH"
                    /\ last_hold[ch].span = "more") =>
                    last_hold[ch].presses = 1
            /\ (last_hold[ch].level = "LOW" /\ last_hold[ch].steady # "HIGH") =>
                    last_hold[ch].presses = 0)

C13_Witness ==
    /\ last_hold["g"].level = "LOW"
    /\ last_hold["g"].steady = "HIGH"
    /\ last_hold["g"].span = "more"
    /\ last_hold["g"].presses = 1
    /\ last_flickerable_state["g"] = "HIGH"

\* C14: if display.begin() fails in setup, the sketch halts for good: no
\* button is ever sampled, no handler runs, the game variables keep their
\* initial values and nothing is drawn.
C14_FailStop ==
    /\ [](display_ok = "failed" =>
            /\ pc = "halted"
            /\ ~sampled
            /\ displayed = "none"
            /\ last_press = "none"
            /\ fired = <<>>
            /\ Snapshot = [state |-> "start", guess |-> 0, number |-> 5,
                           level |-> 1, guesses |-> 0])
    /\ [][pc = "halted" => pc' = "halted"]_vars

C14_Witness ==
    /\ display_ok = "failed"
    /\ pc = "halted"
    /\ now > 0

\* C15: the press events of one loop iteration are applied in the order
\* Minus, Guess, Plus, each handler at most once and on the state the
\* previous one left (Minus+Guess in EnteringGuess evaluates the decremented
\* guess; Guess+Plus in EnteringGuess with a wrong guess ends in
\* EnteringGuess), and only the state after the last handler is drawn.
C15_FixedOrder ==
    /\ [](fired \in InCallOrder)
    /\ []((fired = <<"minus", "guess">> /\ snap.state = "enter_guess") =>
            LET g == IF snap.guess > 0 THEN snap.guess - 1 ELSE 0
            IN  /\ g < snap.number => current_state = "too_low" /\ player_guess = g
                /\ g > snap.number => current_state = "too_high" /\ player_guess = g
                /\ g = snap.number => current_state = "correct")
    /\ []((pc = "render" /\ fired = <<"guess", "plus">>
            /\ snap.state = "enter_guess" /\ snap.guess # snap.number) =>
            /\ current_state = "enter_guess"
            /\ player_guess = snap.guess
            /\ guesses = snap.guesses + 1)
    /\ [][Len(fired') > Len(fired) =>
            /\ pc \in {"minus", "guess", "plus"}
            /\ fired' = Append(fired, pc)
            /\ last_press' = pc
            /\ prev_state' = current_state]_vars
    /\ [][displayed' # displayed =>
            /\ pc = "render"
            /\ displayed' = current_state]_vars

C15_Witness ==
    /\ pc = "render"
    /\ fired = <<"guess", "plus">>
    /\ snap.state = "enter_guess"
    /\ snap.guess # snap.number
    /\ current_state = "enter_guess"

\* C17: the accepted stable level of a channel changes only at a poll of the
\* channel whose sample equals the previous one, more than 75 ms after the
\* last sampled level change, and the new stable level is that sample.
C17_StableChangesAfterQuiet ==
    [][\A ch \in Channels :
        last_steady_state'[ch] # last_steady_state[ch] =>
            /\ pc = HandlerOf(ch)
            /\ button_current_state'[ch] = last_flickerable_state[ch]
            /\ now - hold_since[ch] > 75
            /\ last_steady_state'[ch] = button_current_state'[ch]]_vars

C17_Witness ==
    /\ last_steady_state["p"] = "HIGH"
    /\ last_flickerable_state["p"] = "HIGH"
    /\ now - hold_since["p"] > 75

\* C18: at startup every channel's last unstable level and last accepted
\* stable level are the inactive level, HIGH on the pull-up inputs (LOW is
\* the level whose acceptance calls the handler).
C18_InitInactive ==
    pc = "setup" =>
        \A ch \in Channels :
            /\ last_flickerable_state[ch] = "HIGH"
            /\ last_steady_state[ch] = "HIGH"

\* C19: every PressEvent of a channel comes after a poll that accepted the
\* inactive level as stable, since the previous PressEvent of the channel or
\* since startup; a button held down from power-up yields no PressEvent.
C19_PressNeedsAcceptedRelease ==
    /\ [][\A ch \in Channels :
            (Polled(ch) /\ Len(fired') > Len(fired)) =>
                inactive_accepted[ch]]_vars
    /\ [](\A ch \in Channels :
            (hold_steady[ch] = "none" /\ last_flickerable_state[ch] = "LOW") =>
                hold_presses[ch] = 0)

C19_Witness ==
    /\ pc = "render"
    /\ fired = <<"plus">>
    /\ ~inactive_accepted["p"]
    /\ last_steady_state["p"] = "LOW"

====
